---- MODULE Spec2Model ----
(***************************************************************************)
(* SmartWork.AI (src/app.py): a Streamlit script that is re-run from top   *)
(* to bottom on every interaction.  The state that survives a re-run is    *)
(* st.session_state (four uploaded tables); everything else is what the    *)
(* selected page computes and renders during that re-run.                  *)
(*                                                                         *)
(* Representation                                                          *)
(*  - A DataFrame is a record: rows (the uploaded columns, one record per  *)
(*    row), cols (the names of the columns added after the upload) and one *)
(*    sequence per derived column (<<>> while the column is absent).       *)
(*  - A cell of a text column is [na, text]: na is a missing cell (NaN),   *)
(*    text is the string written as the sequence of its comma-free         *)
(*    segments, so "py,sql" is <<"py","sql">>, "py," is <<"py","">> and    *)
(*    the empty string is <<"">>.                                          *)
(*  - Activity_Score is kept tenfold (4t+3m+2d+1c for 0.4t+0.3m+0.2d+0.1c) *)
(*    so that it stays an integer; True_Utilization is the exact quotient  *)
(*    [kind, num, den] (den > 0) or one of the float specials nan / -inf / *)
(*    +inf that pandas produces on division by zero.  Float rounding of    *)
(*    finite quotients is not modelled.                                    *)
(***************************************************************************)
EXTENDS Integers, Sequences, FiniteSets, TLC

VARIABLES activity, skills, projects, reportees, page, status, df_out, assignments

vars == <<activity, skills, projects, reportees, page, status, df_out, assignments>>

(***************************************************************************)
(* Bounds of the explored inputs.                                          *)
(***************************************************************************)
MaxEmp == 2
MaxCounter == 1
MaxProj == 2
MaxRequired == 2
MaxSessionEmp == 2
MaxSessionProj == 1
MaxReportees == 1
MaxSessionRequired == 1
MaxSkillRows == 1

(***************************************************************************)
(* Generic helpers.                                                        *)
(***************************************************************************)
Range(s) == {s[i] : i \in 1..Len(s)}

RECURSIVE SelectIdx(_, _, _)
\* the subsequence of s at the positions i (in order) with i \in keep
SelectIdx(s, keep, i) ==
  IF i > Len(s) THEN <<>>
  ELSE (IF i \in keep THEN <<s[i]>> ELSE <<>>) \o SelectIdx(s, keep, i + 1)

(***************************************************************************)
(* DataFrames.                                                             *)
(***************************************************************************)
EmptyFrame ==
  [rows |-> <<>>, cols |-> {}, Activity_Score |-> <<>>,
   True_Utilization |-> <<>>, Bench_Status |-> <<>>]

\* pd.read_csv / pd.read_excel: a fresh frame holding only the file's columns
load_file(rows) == [EmptyFrame EXCEPT !.rows = rows]

\* DataFrame.empty
empty(df) == Len(df.rows) = 0

\* df[mask]: a new frame with the rows (and every existing column) at keep
Filter(df, keep) ==
  [rows |-> SelectIdx(df.rows, keep, 1),
   cols |-> df.cols,
   Activity_Score |-> SelectIdx(df.Activity_Score, keep, 1),
   True_Utilization |-> SelectIdx(df.True_Utilization, keep, 1),
   Bench_Status |-> SelectIdx(df.Bench_Status, keep, 1)]

(***************************************************************************)
(* calculate_utilization (src/app.py:25-38).                               *)
(***************************************************************************)
NaNValue == [kind |-> "nan", num |-> 0, den |-> 1]
NegInf == [kind |-> "-inf", num |-> 0, den |-> 1]
PosInf == [kind |-> "+inf", num |-> 0, den |-> 1]
Num(n, d) == [kind |-> "num", num |-> n, den |-> d]

\* line 28-33, tenfold
ActivityScore(r) ==
  4 * r.Tasks_Completed + 3 * r.Meetings_Duration
    + 2 * r.Decisions_Made + 1 * r.Docs_Updated

\* Series.max()
SeriesMax(s) == CHOOSE m \in Range(s) : \A x \in Range(s) : m >= x

\* line 34: (score / max) * 100 in float arithmetic
Utilization(score, max) ==
  IF max = 0
    THEN IF score = 0 THEN NaNValue ELSE IF score < 0 THEN NegInf ELSE PosInf
    ELSE IF max > 0 THEN Num(100 * score, max) ELSE Num(-100 * score, -max)

\* Python's  x < k  on a float x: false for nan, true for -inf
LessThan(x, k) ==
  \/ x.kind = "-inf"
  \/ x.kind = "num" /\ x.num < k * x.den

\* a boundary slip: <= in place of <
BenchStatusInclusive(x) ==
  IF x.kind = "-inf" \/ (x.kind = "num" /\ x.num <= 20 * x.den) THEN "On Bench"
  ELSE IF x.kind = "num" /\ x.num <= 50 * x.den THEN "Partially Utilized"
  ELSE "Fully Utilized"

\* line 36: the lambda
BenchStatus(x) ==
  IF LessThan(x, 20) THEN "On Bench"
  ELSE IF LessThan(x, 50) THEN "Partially Utilized"
  ELSE "Fully Utilized"

calculate_utilization(df) ==
  IF empty(df) THEN df
  ELSE
    LET n == Len(df.rows)
        score == [i \in 1..n |-> ActivityScore(df.rows[i])]
        mx == SeriesMax(score)
        util == [i \in 1..n |-> Utilization(score[i], mx)]
    IN [df EXCEPT
          !.cols = @ \cup {"Activity_Score", "True_Utilization", "Bench_Status"},
          !.Activity_Score = score,
          !.True_Utilization = util,
          !.Bench_Status = [i \in 1..n |-> BenchStatus(util[i])]]

(***************************************************************************)
(* Text cells and skill sets.                                              *)
(***************************************************************************)
NA == [na |-> TRUE, text |-> <<>>]
Text(t) == [na |-> FALSE, text |-> t]

\* str(x): the text of a missing cell is 'nan'
str(x) == IF x.na THEN <<"nan">> ELSE x.text

\* set(str(x).split(",")): no trimming, no case folding, empty segments kept
SkillSet(x) == Range(str(x))

(***************************************************************************)
(* HR Head Project Assignment (src/app.py:254-272).                        *)
(***************************************************************************)
RECURSIVE AssignLoop(_, _, _, _)
\* the nested loops of lines 262-271 from employee row i, project row j on
AssignLoop(df_emp, df_proj, i, j) ==
  IF i > Len(df_emp.rows) THEN <<>>
  ELSE IF j > Len(df_proj) THEN AssignLoop(df_emp, df_proj, i + 1, 1)
  ELSE
    LET emp == df_emp.rows[i]
        proj == df_proj[j]
        emp_skills == SkillSet(emp.Skills)
        proj_skills == SkillSet(proj.Required_Skills)
        row == [Employee |-> emp.Employee,
                Project |-> proj.Project_Name,
                Skill_Match |-> emp_skills \cap proj_skills]
    IN (IF emp_skills \cap proj_skills # {} THEN <<row>> ELSE <<>>)
         \o AssignLoop(df_emp, df_proj, i, j + 1)

\* the page builds and renders the assignments list only (line 272):
\* no unfilled-requirement row is ever produced
UnfilledRequirements(df_emp, df_proj) == <<>>

HRProjectAssignment ==
  /\ page' = "HR Head Project Assignment"
  /\ IF empty(activity) \/ Len(projects) = 0
       THEN /\ status' = "info"
            /\ assignments' = <<>>
       ELSE /\ status' = "ok"
            /\ assignments' = AssignLoop(activity, projects, 1, 1)
  /\ df_out' = EmptyFrame
  /\ UNCHANGED <<activity, skills, projects, reportees>>

(***************************************************************************)
(* The other pages.                                                        *)
(***************************************************************************)
\* lines 122-129
Homepage ==
  /\ page' = "Homepage"
  /\ status' = "ok"
  /\ df_out' = EmptyFrame
  /\ assignments' = <<>>
  /\ UNCHANGED <<activity, skills, projects, reportees>>

\* lines 132-146.  A re-run of the page reloads every uploader that holds a
\* file; the uploaders that already held theirs reload the same contents, so
\* a re-run is one new file arriving in one uploader.
UploadActivity(f1) ==
  /\ page' = "Upload Data"
  /\ activity' = load_file(f1)
  /\ status' = "ok"
  /\ df_out' = EmptyFrame
  /\ assignments' = <<>>
  /\ UNCHANGED <<skills, projects, reportees>>

UploadSkills(f2) ==
  /\ page' = "Upload Data"
  /\ skills' = f2
  /\ status' = "ok"
  /\ df_out' = EmptyFrame
  /\ assignments' = <<>>
  /\ UNCHANGED <<activity, projects, reportees>>

UploadProjects(f3) ==
  /\ page' = "Upload Data"
  /\ projects' = f3
  /\ status' = "ok"
  /\ df_out' = EmptyFrame
  /\ assignments' = <<>>
  /\ UNCHANGED <<activity, skills, reportees>>

UploadReportees(f4) ==
  /\ page' = "Upload Data"
  /\ reportees' = f4
  /\ status' = "ok"
  /\ df_out' = EmptyFrame
  /\ assignments' = <<>>
  /\ UNCHANGED <<activity, skills, projects>>

\* reportees_df['Project_Manager'].unique()
pm_list == {r.Project_Manager : r \in Range(reportees)}

\* df_emp[df_emp['Employee'].isin(pm_reportees)]: a new frame
ReporteesOf(selected_pm) ==
  LET pm_reportees ==
        {r.Employee : r \in {q \in Range(reportees) : q.Project_Manager = selected_pm}}
  IN Filter(activity,
            {i \in 1..Len(activity.rows) : activity.rows[i].Employee \in pm_reportees})

\* lines 149-182
PMDashboard ==
  /\ page' = "Project Manager Dashboard"
  /\ IF Len(reportees) = 0 \/ empty(activity)
       THEN /\ status' = "info"
            /\ df_out' = EmptyFrame
       ELSE \E selected_pm \in pm_list :
              LET df_pm == calculate_utilization(ReporteesOf(selected_pm))
              IN /\ df_out' = df_pm
                 /\ status' = IF "Bench_Status" \in df_pm.cols THEN "ok" ELSE "KeyError"
  /\ assignments' = <<>>
  /\ UNCHANGED <<activity, skills, projects, reportees>>

\* lines 185-196
PMReportees ==
  /\ page' = "Project Manager Reportees"
  /\ IF Len(reportees) = 0 \/ empty(activity)
       THEN /\ status' = "info"
            /\ df_out' = EmptyFrame
       ELSE \E selected_pm \in pm_list :
              /\ df_out' = ReporteesOf(selected_pm)
              /\ status' = "ok"
  /\ assignments' = <<>>
  /\ UNCHANGED <<activity, skills, projects, reportees>>

\* lines 199-211 with ai_recommendations_pm (lines 71-95): scores a copy
PMAIRecommendations ==
  /\ page' = "Project Manager AI Recommendations"
  /\ IF Len(reportees) = 0 \/ empty(activity) \/ Len(projects) = 0
       THEN /\ status' = "info"
            /\ df_out' = EmptyFrame
       ELSE \E selected_pm \in pm_list :
              LET df == calculate_utilization(ReporteesOf(selected_pm))
              IN /\ df_out' = df
                 /\ status' = IF "True_Utilization" \in df.cols THEN "ok" ELSE "KeyError"
  /\ assignments' = <<>>
  /\ UNCHANGED <<activity, skills, projects, reportees>>

\* lines 214-227: calculate_utilization is handed the session's own frame and
\* assigns its columns into it
HRDashboard ==
  /\ page' = "HR Head Dashboard & Analytics"
  /\ activity' = calculate_utilization(activity)
  /\ df_out' = activity'
  /\ status' = IF empty(activity) THEN "info" ELSE "ok"
  /\ assignments' = <<>>
  /\ UNCHANGED <<skills, projects, reportees>>

\* lines 230-251.  Line 250 writes Recommended_Skills into the session's
\* frame (its contents are not modelled); line 251 then selects Bench_Status.
HRSkillRecommendations ==
  /\ page' = "HR Head Skill Recommendations"
  /\ IF empty(activity) \/ skills = 0 \/ Len(projects) = 0
       THEN /\ status' = "info"
            /\ activity' = activity
            /\ df_out' = EmptyFrame
       ELSE /\ activity' = [activity EXCEPT !.cols = @ \cup {"Recommended_Skills"}]
            /\ status' = IF "Bench_Status" \in activity.cols THEN "ok" ELSE "KeyError"
            /\ df_out' = IF "Bench_Status" \in activity.cols THEN activity' ELSE EmptyFrame
  /\ assignments' = <<>>
  /\ UNCHANGED <<skills, projects, reportees>>

\* lines 275-284 with ai_recommendations_hr (lines 41-68): scores a copy
HRAIRecommendations ==
  /\ page' = "HR Head AI Recommendations"
  /\ IF empty(activity) \/ Len(projects) = 0
       THEN /\ status' = "info"
            /\ df_out' = EmptyFrame
       ELSE /\ status' = "ok"
            /\ df_out' = calculate_utilization(activity)
  /\ assignments' = <<>>
  /\ UNCHANGED <<activity, skills, projects, reportees>>

(***************************************************************************)
(* Uploaded files.                                                         *)
(***************************************************************************)
Counters == -1..MaxCounter
NonNegative == 0..MaxCounter

EmployeeRow(t, m, d, c, s) ==
  [Employee |-> 0, Tasks_Completed |-> t, Meetings_Duration |-> m,
   Decisions_Made |-> d, Docs_Updated |-> c, Skills |-> s]

\* every table of 1..n rows drawn from RowSet; row i is employee i
Tables(RowSet, n) ==
  UNION {{[i \in 1..k |-> [r[i] EXCEPT !.Employee = i]] : r \in [1..k -> RowSet]}
         : k \in 1..n}

\* project tables of 1..n rows; row j is project j
ProjectTables(RowSet, n) ==
  UNION {{[j \in 1..k |-> [r[j] EXCEPT !.Project_Name = j]] : r \in [1..k -> RowSet]}
         : k \in 1..n}

\* activity files for the scoring function: every counter varies (the two
\* middle ones over the ends of the range only), a negative Tasks_Completed
\* included
Endpoints == {0, MaxCounter}

ScoreRows ==
  {EmployeeRow(t, m, d, c, NA) :
     t \in Counters, m \in Endpoints, d \in Endpoints, c \in NonNegative}

\* skills cells for the matching: missing, "py", "sql", "py,sql", "py,", "sql,"
MatchCells ==
  {NA, Text(<<"py">>), Text(<<"sql">>), Text(<<"py", "sql">>),
   Text(<<"py", "">>), Text(<<"sql", "">>)}

MatchRows == {EmployeeRow(t, 0, 0, 0, s) : t \in NonNegative, s \in MatchCells}

MatchProjectRows ==
  {[Project_Name |-> 0, Required_Skills |-> s, Num_Employees_Required |-> n] :
     s \in MatchCells, n \in 0..MaxRequired}

\* files of the whole-session specification
SessionCells == {NA, Text(<<"py">>)}

SessionRows == {EmployeeRow(t, 0, 0, 0, s) : t \in NonNegative, s \in SessionCells}

SessionProjectRows ==
  {[Project_Name |-> 0, Required_Skills |-> s, Num_Employees_Required |-> n] :
     s \in SessionCells, n \in 0..MaxSessionRequired}

SessionReporteeRows ==
  {[Project_Manager |-> "pm1", Employee |-> e] : e \in 1..MaxSessionEmp}

ReporteeTables ==
  UNION {[1..k -> SessionReporteeRows] : k \in 1..MaxReportees}

(***************************************************************************)
(* The session: lines 98-101 create four empty tables, line 118 starts on  *)
(* the home page.                                                          *)
(***************************************************************************)
Init ==
  /\ activity = EmptyFrame
  /\ skills = 0
  /\ projects = <<>>
  /\ reportees = <<>>
  /\ page = "Homepage"
  /\ status = "ok"
  /\ df_out = EmptyFrame
  /\ assignments = <<>>

Next ==
  \/ Homepage
  \/ \E f1 \in Tables(SessionRows, MaxSessionEmp) \cup {<<>>} : UploadActivity(f1)
  \/ \E f2 \in 0..MaxSkillRows : UploadSkills(f2)
  \/ \E f3 \in ProjectTables(SessionProjectRows, MaxSessionProj) \cup {<<>>} :
       UploadProjects(f3)
  \/ \E f4 \in ReporteeTables \cup {<<>>} : UploadReportees(f4)
  \/ PMDashboard
  \/ PMReportees
  \/ PMAIRecommendations
  \/ HRDashboard
  \/ HRSkillRecommendations
  \/ HRProjectAssignment
  \/ HRAIRecommendations

Spec == Init /\ [][Next]_vars

(***************************************************************************)
(* calculate_utilization on its own: any activity file has been uploaded,  *)
(* and the dashboard scores it.                                            *)
(***************************************************************************)
InitScore ==
  /\ \E k \in 1..MaxEmp : \E r \in [1..k -> ScoreRows] :
       activity = load_file([i \in 1..k |-> [r[i] EXCEPT !.Employee = i]])
  /\ skills = 0
  /\ projects = <<>>
  /\ reportees = <<>>
  /\ page = "Upload Data"
  /\ status = "ok"
  /\ df_out = EmptyFrame
  /\ assignments = <<>>

NextScore == HRDashboard

SpecScore == InitScore /\ [][NextScore]_vars

(***************************************************************************)
(* The matching on its own: an activity file and a project file have been  *)
(* uploaded, the dashboard has scored the activity table or not, and the   *)
(* Project Assignment page is opened.                                      *)
(***************************************************************************)
InitMatch ==
  /\ \E f1 \in Tables(MatchRows, MaxEmp), scored \in BOOLEAN :
       IF scored
         THEN /\ activity = calculate_utilization(load_file(f1))
              /\ df_out = activity
              /\ page = "HR Head Dashboard & Analytics"
         ELSE /\ activity = load_file(f1)
              /\ df_out = EmptyFrame
              /\ page = "Upload Data"
  /\ skills = 0
  /\ projects \in ProjectTables(MatchProjectRows, MaxProj)
  /\ reportees = <<>>
  /\ status = "ok"
  /\ assignments = <<>>

NextMatch == HRProjectAssignment

SpecMatch == InitMatch /\ [][NextMatch]_vars

(***************************************************************************)
(* Properties.                                                             *)
(***************************************************************************)
DerivedColumns == {"Activity_Score", "True_Utilization", "Bench_Status"}

Scored(df) == ~empty(df) /\ DerivedColumns \subseteq df.cols

Rows(df) == 1..Len(df.rows)

\* the value u, a number, compared with the number k
IsNumber(u) == u.kind = "num"
Below(u, k) == u.num < k * u.den
AtLeast(u, k) == u.num >= k * u.den

\* an employee whose four counters are all zero
NoActivity(r) ==
  /\ r.Tasks_Completed = 0
  /\ r.Meetings_Duration = 0
  /\ r.Decisions_Made = 0
  /\ r.Docs_Updated = 0

\* C1: a batch in which no employee has any activity (every score is zero) is scored with every
\* True_Utilization exactly 0 (a number, not NaN) and every Bench_Status
\* "On Bench".
C1_AllZeroBatchIsZeroOnBench ==
  (Scored(activity) /\ \A i \in Rows(activity) : NoActivity(activity.rows[i]))
    => \A i \in Rows(activity) :
         /\ IsNumber(activity.True_Utilization[i])
         /\ activity.True_Utilization[i].num = 0
         /\ activity.Bench_Status[i] = "On Bench"

\* C2: in every scored batch, negative counters included, every
\* True_Utilization is a number in [0, 100] (stated for the batches with some
\* non-zero score; the all-zero batch is C1's).
C2_UtilizationWithinZeroAndHundred ==
  (Scored(activity) /\ \E i \in Rows(activity) : activity.Activity_Score[i] # 0)
    => \A i \in Rows(activity) :
         /\ IsNumber(activity.True_Utilization[i])
         /\ AtLeast(activity.True_Utilization[i], 0)
         /\ ~AtLeast(activity.True_Utilization[i], 100)
              \/ activity.True_Utilization[i].num = 100 * activity.True_Utilization[i].den

\* two cells hold the same True_Utilization value
SameValue(u, v) ==
  /\ u.kind = v.kind
  /\ IsNumber(u) => u.num * v.den = v.num * u.den

\* C7: in every scored batch each employee carries one of the three labels,
\* a numeric True_Utilization u carries "On Bench" when u < 20, "Partially
\* Utilized" when 20 <= u < 50 and "Fully Utilized" when u >= 50 (minus
\* infinity counts as below 20), and two employees with the same
\* True_Utilization carry the same label.
C7_BenchStatusFollowsThresholds ==
  Scored(activity)
    => /\ \A i \in Rows(activity) :
            LET u == activity.True_Utilization[i]
                b == activity.Bench_Status[i]
            IN /\ b \in {"On Bench", "Partially Utilized", "Fully Utilized"}
               /\ (IsNumber(u) /\ Below(u, 20)) => b = "On Bench"
               /\ u.kind = "-inf" => b = "On Bench"
               /\ (IsNumber(u) /\ AtLeast(u, 20) /\ Below(u, 50))
                    => b = "Partially Utilized"
               /\ (IsNumber(u) /\ AtLeast(u, 50)) => b = "Fully Utilized"
       /\ \A i, j \in Rows(activity) :
            SameValue(activity.True_Utilization[i], activity.True_Utilization[j])
              => activity.Bench_Status[i] = activity.Bench_Status[j]

\* a scored batch of non-negative counters with an employee at exactly 20
\* (labelled "Partially Utilized") next to the top scorer at 100
C7_Witness ==
  /\ Scored(activity)
  /\ \A i \in Rows(activity) : activity.rows[i].Tasks_Completed >= 0
  /\ \E i, j \in Rows(activity) :
       /\ IsNumber(activity.True_Utilization[i])
       /\ activity.True_Utilization[i].num = 20 * activity.True_Utilization[i].den
       /\ activity.Bench_Status[i] = "Partially Utilized"
       /\ activity.True_Utilization[j].num = 100 * activity.True_Utilization[j].den
       /\ activity.Bench_Status[j] = "Fully Utilized"

\* the Project Assignment page has rendered its table
Matched == page = "HR Head Project Assignment" /\ status = "ok"

AssignedTo(j) == {k \in 1..Len(assignments) : assignments[k].Project = j}

\* a skills cell that is present and names skills only (no empty segment)
RealSkills(x) == ~x.na /\ "" \notin Range(x.text)

\* the uploaded tables have real skills in every row, and a scored activity
\* table has a number in every True_Utilization cell
WellFormedInputs ==
  /\ \A i \in Rows(activity) : RealSkills(activity.rows[i].Skills)
  /\ \A j \in 1..Len(projects) : RealSkills(projects[j].Required_Skills)
  /\ Scored(activity) => \A i \in Rows(activity) : IsNumber(activity.True_Utilization[i])

\* C3: no employee appears in more than one assignment row (stated for
\* well-formed inputs, as are C4, C6 and C9: the rows that malformed cells
\* produce are C5's and C1's).
C3_EmployeeAssignedAtMostOnce ==
  (Matched /\ WellFormedInputs) =>
  \A a, b \in 1..Len(assignments) :
    assignments[a].Employee = assignments[b].Employee => a = b

\* C4: no project gets more assignment rows than its required headcount,
\* and none at all when the headcount is 0 or less.
C4_HeadcountNeverExceeded ==
  (Matched /\ WellFormedInputs)
    => \A j \in 1..Len(projects) :
         Cardinality(AssignedTo(j))
           <= (IF projects[j].Num_Employees_Required > 0
                 THEN projects[j].Num_Employees_Required ELSE 0)

\* C5: every assignment row joins an employee and a project whose skills
\* cells are both present and share a skill other than the empty string.
C5_MatchedSkillsAreReal ==
  Matched
    => \A k \in 1..Len(assignments) :
         /\ ~activity.rows[assignments[k].Employee].Skills.na
         /\ ~projects[assignments[k].Project].Required_Skills.na
         /\ assignments[k].Skill_Match \ {""} # {}

\* C6: when the activity table is scored, every assigned employee is on
\* bench or below the threshold of 50.
C6_OnlyEligibleEmployeesAssigned ==
  (Matched /\ WellFormedInputs /\ Scored(activity))
    => \A k \in 1..Len(assignments) :
         LET e == assignments[k].Employee
         IN \/ activity.Bench_Status[e] = "On Bench"
            \/ /\ IsNumber(activity.True_Utilization[e])
               /\ Below(activity.True_Utilization[e], 50)

\* C9: a project left with fewer assignment rows than its headcount has
\* exactly one unfilled-requirement row, whose shortfall plus the assigned
\* count is the headcount.
C9_ShortfallIsReported ==
  (Matched /\ WellFormedInputs)
    => \A j \in 1..Len(projects) :
         Cardinality(AssignedTo(j)) < projects[j].Num_Employees_Required
           => LET unfilled == UnfilledRequirements(activity, projects)
                  mine == {k \in 1..Len(unfilled) : unfilled[k].Project = j}
              IN /\ Cardinality(mine) = 1
                 /\ \A k \in mine :
                      unfilled[k].Shortfall + Cardinality(AssignedTo(j))
                        = projects[j].Num_Employees_Required

\* the pages whose re-run calls calculate_utilization
ScoringPages ==
  {"Project Manager Dashboard", "Project Manager AI Recommendations",
   "HR Head Dashboard & Analytics", "HR Head AI Recommendations"}

\* C8: a view of a page that calls the scoring function leaves the session's
\* activity table as it was.
C8_ScoringLeavesActivityUnchanged ==
  [][page' \in ScoringPages => activity' = activity]_vars

\* C10: whenever the Skill Recommendations page gets past its empty-table
\* check, the session's activity table carries Bench_Status.
C10_SkillPageFindsBenchStatus ==
  (page = "HR Head Skill Recommendations" /\ status # "info")
    => "Bench_Status" \in activity.cols

====
